---------------------------- MODULE Spec2Model ----------------------------
(***************************************************************************)
(* A model of the glow dataflow package (glow.go): Node, Graph, the        *)
(* wiring calls AddNode / Connect / SetForeground and Graph.Run.           *)
(*                                                                         *)
(* Strings are sequences of tokens.  A token stands for a fixed run of     *)
(* characters; ":" is the only token that contains a colon and "Out" the   *)
(* only one that ends in "Out", so strings.Split(s, ":") and               *)
(* strings.HasSuffix(s, "Out") are computed on the token sequence.         *)
(* The empty string is << >>.                                              *)
(*                                                                         *)
(* A panic is not recovered: the process stops where the panic left it     *)
(* (pc = "Panicked", err = the panic's message).                           *)
(***************************************************************************)
EXTENDS Integers, Sequences, FiniteSets, TLC

\* ------------------------------------------------------------------ bounds
\* Connect calls that create a channel, per graph.
MaxChans == 2
\* Largest channel capacity offered to Connect (0 = unbuffered).
MaxCap == 1
\* Values the Source node sends, and the Sink node reads.
NumVals == 2

\* ----------------------------------------------------------------- strings
Str(tok) == <<tok>>
EmptyStr == << >>
Colon == ":"

RECURSIVE IndexOf(_, _, _)
\* First position >= i of token t in s, 0 when there is none.
IndexOf(s, t, i) ==
    IF i > Len(s) THEN 0
    ELSE IF s[i] = t THEN i
    ELSE IndexOf(s, t, i + 1)

RECURSIVE Split(_, _)
\* strings.Split(s, sep): the pieces of s between the separators.
Split(s, sep) ==
    LET k == IndexOf(s, sep, 1)
    IN  IF k = 0 THEN <<s>>
        ELSE <<SubSeq(s, 1, k - 1)>> \o Split(SubSeq(s, k + 1, Len(s)), sep)

\* strings.HasSuffix(s, suffix), for a one-token suffix.
HasSuffix(s, suffix) == Len(s) >= 1 /\ s[Len(s)] = suffix

\* splitNamePort: x := strings.Split(s, ":"); return x[0], x[1].
\* x[1] panics (index out of range) when s holds no colon.
splitNamePort(s) ==
    LET x == Split(s, Colon)
    IN  IF Len(x) < 2
        THEN [ok |-> FALSE, name |-> EmptyStr, port |-> EmptyStr]
        ELSE [ok |-> TRUE, name |-> x[1], port |-> x[2]]

\* ---------------------------------------------------- panics (err values)
NoErr == << >>
ErrNodeAdded(name) == <<"Node already added: ">> \o name
ErrArgNotFound == <<"Argument not found.">>
ErrArgSet(name) == <<"Argument alread set: ">> \o name
ErrNilDeref == <<"runtime error: invalid memory address or nil pointer dereference">>
ErrIndex == <<"runtime error: index out of range">>
ErrFuncIndex == <<"reflect: Func index out of bounds">>
ErrNonChan == <<"reflect.MakeChan of non-chan type">>
ErrTooFew == <<"reflect: Call with too few input arguments">>
ErrZeroValue == <<"reflect: Call using zero Value argument">>
ErrCallType == <<"reflect: Call using wrong type">>

\* ------------------------------------------------- types and reflect.Value
\* A reflect.Type is its constructors, outermost first.
GlobalsT == <<"ptr", "Globals">>
ChanInt == <<"chan", "int">>
\* []chan int, the type of a parameter declared "...chan int"
SliceChanInt == <<"slice", "chan", "int">>
NoType == << >>
IsChan(t) == Len(t) >= 1 /\ t[1] = "chan"
\* reflect.Type.Elem()
Elem(t) == Tail(t)

\* The zero reflect.Value: IsValid() is false.
Invalid == [valid |-> FALSE, type |-> NoType, ref |-> 0]
\* reflect.ValueOf(&globals)
GlobalsPtr == [valid |-> TRUE, type |-> GlobalsT, ref |-> 0]
\* The reflect.Value of channel number ref of the heap.
ChanValue(t, ref) == [valid |-> TRUE, type |-> t, ref |-> ref]
IsValid(v) == v.valid

\* The node functions of the model and their reflect.Type:
\*   func Source(gl *Globals, Out chan int), func Sink(gl *Globals, In chan int)
\*   func Merge(gl *Globals, Out chan int, Ins ...chan int)
Fns == {"Source", "Sink", "Merge"}
FuncType(fn) ==
    IF fn = "Merge"
    THEN [in |-> <<GlobalsT, ChanInt, SliceChanInt>>, variadic |-> TRUE]
    ELSE [in |-> <<GlobalsT, ChanInt>>, variadic |-> FALSE]
NumIn(ft) == Len(ft.in)
IsVariadic(ft) == ft.variadic

\* -------------------------------------------------------------------- Node
Argument(name, type) == [name |-> name, val |-> Invalid, Type |-> type]

RECURSIVE NewNodeArgsNoElem(_, _, _)
\* The loop of NewNode giving a variadic port the type of the parameter
\* itself: "Type: lastArg" for "Type: lastArg.Elem()".
NewNodeArgsNoElem(ft, argNames, i) ==
    IF i > Len(argNames) THEN [ok |-> TRUE, args |-> << >>]
    ELSE IF IsVariadic(ft) /\ i - 1 >= NumIn(ft) - 1
    THEN LET rest == NewNodeArgsNoElem(ft, argNames, i + 1)
         IN  [ok |-> rest.ok,
              args |-> <<Argument(argNames[i], ft.in[NumIn(ft)])>> \o rest.args]
    ELSE IF i > NumIn(ft) THEN [ok |-> FALSE, args |-> << >>]
    ELSE LET rest == NewNodeArgsNoElem(ft, argNames, i + 1)
         IN  [ok |-> rest.ok,
              args |-> <<Argument(argNames[i], ft.in[i])>> \o rest.args]

RECURSIVE NewNodeArgs(_, _, _)
\* The loop of NewNode from index i on: [ok, args]; ft.In(i) panics past NumIn.
NewNodeArgs(ft, argNames, i) ==
    IF i > Len(argNames) THEN [ok |-> TRUE, args |-> << >>]
    ELSE IF IsVariadic(ft) /\ i - 1 >= NumIn(ft) - 1
    THEN LET rest == NewNodeArgs(ft, argNames, i + 1)
         IN  [ok |-> rest.ok,
              args |-> <<Argument(argNames[i], Elem(ft.in[NumIn(ft)]))>> \o rest.args]
    ELSE IF i > NumIn(ft) THEN [ok |-> FALSE, args |-> << >>]
    ELSE LET rest == NewNodeArgs(ft, argNames, i + 1)
         IN  [ok |-> rest.ok,
              args |-> <<Argument(argNames[i], ft.in[i])>> \o rest.args]

\* NewNode(fn, name, argNames...): [err, node].
NewNode(fn, name, argNames) ==
    LET ft == FuncType(fn)
        r == NewNodeArgs(ft, <<Str("globals")>> \o argNames, 1)
    IN  [err |-> IF r.ok THEN NoErr ELSE ErrFuncIndex,
         node |-> [name |-> name, fi |-> fn, ft |-> ft, args |-> r.args]]

RECURSIVE ArgIndex(_, _, _)
\* The first index >= i of an argument named name, 0 when there is none.
ArgIndex(args, name, i) ==
    IF i > Len(args) THEN 0
    ELSE IF args[i].name = name THEN i
    ELSE ArgIndex(args, name, i + 1)

\* node.MakeChan(name, size), node == nodes[nodeName] (nil when absent):
\* [err, type]; the caller allocates the channel.
MakeChan(ns, nodeName, name, size) ==
    IF nodeName \notin DOMAIN ns THEN [err |-> ErrNilDeref, type |-> NoType]
    ELSE LET i == ArgIndex(ns[nodeName].args, name, 1)
         IN  IF i = 0 THEN [err |-> ErrArgNotFound, type |-> NoType]
             ELSE IF ~IsChan(ns[nodeName].args[i].Type)
             THEN [err |-> ErrNonChan, type |-> NoType]
             ELSE [err |-> NoErr, type |-> ns[nodeName].args[i].Type]

\* SetArg without its "if arg.val.IsValid()" test: the value is overwritten.
SetArgOverwrite(ns, nodeName, name, val) ==
    IF nodeName \notin DOMAIN ns THEN [err |-> ErrNilDeref, nodes |-> ns]
    ELSE LET i == ArgIndex(ns[nodeName].args, name, 1)
         IN  IF i = 0 THEN [err |-> ErrArgNotFound, nodes |-> ns]
             ELSE [err |-> NoErr,
                   nodes |-> [ns EXCEPT ![nodeName].args[i].val = val]]

\* SetArg storing the value in the loop's copy of the argument
\* ("arg.val = val"): node.args is left as it was.
SetArgCopy(ns, nodeName, name, val) ==
    IF nodeName \notin DOMAIN ns THEN [err |-> ErrNilDeref, nodes |-> ns]
    ELSE LET i == ArgIndex(ns[nodeName].args, name, 1)
         IN  IF i = 0 THEN [err |-> ErrArgNotFound, nodes |-> ns]
             ELSE IF IsValid(ns[nodeName].args[i].val)
             THEN [err |-> ErrArgSet(name), nodes |-> ns]
             ELSE [err |-> NoErr, nodes |-> ns]

\* node.SetArg(name, val), node == nodes[nodeName] (nil when absent):
\* [err, nodes].
SetArg(ns, nodeName, name, val) ==
    IF nodeName \notin DOMAIN ns THEN [err |-> ErrNilDeref, nodes |-> ns]
    ELSE LET i == ArgIndex(ns[nodeName].args, name, 1)
         IN  IF i = 0 THEN [err |-> ErrArgNotFound, nodes |-> ns]
             ELSE IF IsValid(ns[nodeName].args[i].val)
             THEN [err |-> ErrArgSet(name), nodes |-> ns]
             ELSE [err |-> NoErr,
                   nodes |-> [ns EXCEPT ![nodeName].args[i].val = val]]

\* ------------------------------------------------------------------- state
VARIABLES
    nodes,      \* Graph.nodes: node name -> Node
    connStr,    \* Graph.connStr: the connection records
    lastChan,   \* Graph.lastChan
    globals,    \* Graph.globals
    fgName,     \* Graph.fgName
    heap,       \* the channels reflect.MakeChan has made: [cap, buf]
    pc,         \* the caller: Building, Launching, Foreground, Returned, Panicked
    err,        \* the message of the panic that stopped the process, or NoErr
    fgCalls,    \* the names the last two SetForeground calls were given
    pending,    \* Graph.Run: the nodes its loop has still to visit
    fgNode,     \* Graph.Run: its local fgNode, {} for nil
    procs       \* node name -> the executions of its Node.Run, once Run is entered

vars == <<nodes, connStr, lastChan, globals, fgName, heap, pc, err, fgCalls,
          pending, fgNode, procs>>

graphVars == <<nodes, connStr, lastChan, globals, fgName, heap>>
runVars == <<pending, fgNode, procs>>

\* ------------------------------------------------------------------ inputs
Names == {EmptyStr, Str("A"), Str("B")}
In == Str("In")
Out == Str("Out")
\* What AddNode is called with: a node function, a node name and the port
\* names.  Node A is a Source or a Sink, nodes B and "" are Sinks; the last
\* registration names one port more than Source has parameters.
Registrations ==
    { [fn |-> "Source", name |-> Str("A"), argNames |-> <<Out>>],
      [fn |-> "Sink", name |-> Str("A"), argNames |-> <<In>>],
      [fn |-> "Sink", name |-> Str("B"), argNames |-> <<In>>],
      [fn |-> "Sink", name |-> EmptyStr, argNames |-> <<In>>],
      [fn |-> "Source", name |-> Str("B"), argNames |-> <<Out, In>>] }
\* "Node:Port" strings for the ports these registrations make.
Endpoints ==
    { <<"A", Colon, "Out">>, <<"A", Colon, "In">>, <<"B", Colon, "In">>,
      <<Colon, "In">> }
\* A list longer than the graph has ports cannot be bound: the lists offered
\* to Connect hold at most one endpoint per node name, and five more are
\* not of the form "Node:Port" or name slot 0.
EndpointLists ==
    UNION { [1..k -> Endpoints] : k \in 0..Cardinality(Names) }
    \cup { <<Str("A")>>,
           <<<<"A", Colon, "Out">>, Str("A")>>,
           <<<<"A", Colon, "globals">>>>,
           <<<<"A", Colon, "Out">>, <<"A", Colon, "globals">>>>,
           <<<<"A", Colon, "Out", Colon, "x">>, <<"B", Colon, "In">>>> }
Sizes == 0..MaxCap
\* The names SetForeground is called with.
FgNames == {Str("A"), Str("B")}
\* What NewGraph is called with: nil, or a pointer to the globals.
GlobalsValues == {Invalid, GlobalsPtr}

\* ------------------------------------------------------------------- Graph
\* NewGraph(globals)
Init ==
    /\ nodes = << >>
    /\ connStr = << >>
    /\ lastChan = 0
    /\ globals \in GlobalsValues
    /\ fgName = EmptyStr
    /\ heap = << >>
    /\ pc = "Building"
    /\ err = NoErr
    /\ fgCalls = << >>
    /\ pending = {}
    /\ fgNode = {}
    /\ procs = << >>

Panic(msg) == pc' = "Panicked" /\ err' = msg

\* AddNode without its "if ok" test: the node of that name is replaced.
AddNodeResultReplace(ns, gl, fn, name, argNames) ==
    LET r == NewNode(fn, name, argNames)
    IN  IF r.err # NoErr THEN [err |-> r.err, nodes |-> ns]
        ELSE LET s == SetArg(name :> r.node, name, Str("globals"), gl)
             IN  [err |-> s.err,
                  nodes |-> IF s.err = NoErr THEN s.nodes @@ ns ELSE ns]

\* What AddNode leaves in g.nodes: [err, nodes].
AddNodeResult(ns, gl, fn, name, argNames) ==
    IF name \in DOMAIN ns THEN [err |-> ErrNodeAdded(name), nodes |-> ns]
    ELSE LET r == NewNode(fn, name, argNames)
         IN  IF r.err # NoErr THEN [err |-> r.err, nodes |-> ns]
             ELSE LET s == SetArg(name :> r.node, name, Str("globals"), gl)
                  IN  [err |-> s.err,
                       nodes |-> IF s.err = NoErr THEN s.nodes @@ ns ELSE ns]

AddNode(fn, name, argNames) ==
    /\ pc = "Building"
    /\ LET r == AddNodeResult(nodes, globals, fn, name, argNames)
       IN  /\ nodes' = r.nodes
           /\ IF r.err = NoErr THEN UNCHANGED <<pc, err>> ELSE Panic(r.err)
    /\ UNCHANGED <<connStr, lastChan, globals, fgName, heap, fgCalls>>
    /\ UNCHANGED runVars

\* fmt.Sprintf("chan_%v", g.lastChan)
ChanName(n) == <<"chan_", ToString(n)>>
\* fmt.Sprintf("%v [\nlabel=\"%v\"\n]", chName, size)
ChanRecord(chName, size) == chName \o <<" [\nlabel=\"", ToString(size), "\"\n]">>
\* name+":"+port+"->"+chName, or chName+"->"+name+":"+port
EdgeRecord(name, port, chName) ==
    IF HasSuffix(port, "Out")
    THEN name \o <<Colon>> \o port \o <<"->">> \o chName
    ELSE chName \o <<"->">> \o name \o <<Colon>> \o port

RECURSIVE ConnectLoopOwnChan(_, _, _, _, _, _)
\* The loop of Connect with a channel of its own for each endpoint.
ConnectLoopOwnChan(ns, cs, nodeChans, i, ch, chName) ==
    IF i > Len(nodeChans) THEN [err |-> NoErr, nodes |-> ns, connStr |-> cs]
    ELSE LET sp == splitNamePort(nodeChans[i])
         IN  IF ~sp.ok THEN [err |-> ErrIndex, nodes |-> ns, connStr |-> cs]
             ELSE LET s == SetArg(ns, sp.name, sp.port,
                                  [ch EXCEPT !.ref = ch.ref + i - 1])
                  IN  IF s.err # NoErr
                      THEN [err |-> s.err, nodes |-> ns, connStr |-> cs]
                      ELSE ConnectLoopOwnChan(s.nodes,
                                       Append(cs, EdgeRecord(sp.name, sp.port, chName)),
                                       nodeChans, i + 1, ch, chName)

\* The loop of Connect binding nodeChans[0] only, and recording every endpoint.
ConnectLoopFirstOnly(ns, cs, nodeChans, i, ch, chName) ==
    LET sp == splitNamePort(nodeChans[1])
        s == SetArg(ns, sp.name, sp.port, ch)
        edge(k) == LET e == splitNamePort(nodeChans[k])
                   IN  EdgeRecord(e.name, e.port, chName)
    IN  IF s.err # NoErr \/ \E k \in 1..Len(nodeChans) : ~splitNamePort(nodeChans[k]).ok
        THEN [err |-> ErrIndex, nodes |-> ns, connStr |-> cs]
        ELSE [err |-> NoErr, nodes |-> s.nodes,
              connStr |-> cs \o [k \in 1..Len(nodeChans) |-> edge(k)]]

RECURSIVE ConnectLoop(_, _, _, _, _, _)
\* The loop of Connect over nodeChans from index i on: [err, nodes, connStr].
ConnectLoop(ns, cs, nodeChans, i, ch, chName) ==
    IF i > Len(nodeChans) THEN [err |-> NoErr, nodes |-> ns, connStr |-> cs]
    ELSE LET sp == splitNamePort(nodeChans[i])
         IN  IF ~sp.ok THEN [err |-> ErrIndex, nodes |-> ns, connStr |-> cs]
             ELSE LET s == SetArg(ns, sp.name, sp.port, ch)
                  IN  IF s.err # NoErr
                      THEN [err |-> s.err, nodes |-> ns, connStr |-> cs]
                      ELSE ConnectLoop(s.nodes,
                                       Append(cs, EdgeRecord(sp.name, sp.port, chName)),
                                       nodeChans, i + 1, ch, chName)

\* Connect making a channel with one slot more than asked for.
ConnectResultRoomier(ns, cs, lc, hp, size, nodeChans) ==
    LET same == [err |-> NoErr, nodes |-> ns, connStr |-> cs, lastChan |-> lc,
                 heap |-> hp]
    IN  IF Len(nodeChans) = 0 THEN [same EXCEPT !.err = ErrIndex]
        ELSE LET sp == splitNamePort(nodeChans[1])
             IN  IF ~sp.ok THEN [same EXCEPT !.err = ErrIndex]
                 ELSE LET mc == MakeChan(ns, sp.name, sp.port, size)
                      IN  IF mc.err # NoErr THEN [same EXCEPT !.err = mc.err]
                          ELSE LET ch == ChanValue(mc.type, Len(hp) + 1)
                                   chName == ChanName(lc)
                                   r == ConnectLoop(ns,
                                            Append(cs, ChanRecord(chName, size)),
                                            nodeChans, 1, ch, chName)
                               IN  [err |-> r.err, nodes |-> r.nodes,
                                    connStr |-> r.connStr, lastChan |-> lc + 1,
                                    heap |-> Append(hp, [cap |-> size + 1,
                                                         buf |-> << >>])]

\* What Connect leaves in the graph: [err, nodes, connStr, lastChan, heap].
ConnectResult(ns, cs, lc, hp, size, nodeChans) ==
    LET same == [err |-> NoErr, nodes |-> ns, connStr |-> cs, lastChan |-> lc,
                 heap |-> hp]
    IN  IF Len(nodeChans) = 0 THEN [same EXCEPT !.err = ErrIndex]
        ELSE LET sp == splitNamePort(nodeChans[1])
             IN  IF ~sp.ok THEN [same EXCEPT !.err = ErrIndex]
                 ELSE LET mc == MakeChan(ns, sp.name, sp.port, size)
                      IN  IF mc.err # NoErr THEN [same EXCEPT !.err = mc.err]
                          ELSE LET ch == ChanValue(mc.type, Len(hp) + 1)
                                   chName == ChanName(lc)
                                   r == ConnectLoop(ns,
                                            Append(cs, ChanRecord(chName, size)),
                                            nodeChans, 1, ch, chName)
                               IN  [err |-> r.err, nodes |-> r.nodes,
                                    connStr |-> r.connStr, lastChan |-> lc + 1,
                                    heap |-> Append(hp, [cap |-> size, buf |-> << >>])]

Connect(size, nodeChans) ==
    /\ pc = "Building"
    /\ Len(heap) < MaxChans
    /\ LET r == ConnectResult(nodes, connStr, lastChan, heap, size, nodeChans)
       IN  /\ nodes' = r.nodes
           /\ connStr' = r.connStr
           /\ lastChan' = r.lastChan
           /\ heap' = r.heap
           /\ IF r.err = NoErr THEN UNCHANGED <<pc, err>> ELSE Panic(r.err)
    /\ UNCHANGED <<globals, fgName, fgCalls>>
    /\ UNCHANGED runVars

\* SetForeground that keeps a designation already made.
SetForegroundFirst(name) ==
    /\ pc = "Building"
    /\ fgName' = IF fgName = EmptyStr THEN name ELSE fgName
    /\ fgCalls' = IF Len(fgCalls) < 2 THEN Append(fgCalls, name)
                  ELSE <<fgCalls[2], name>>
    /\ UNCHANGED <<nodes, connStr, lastChan, globals, heap, pc, err>>
    /\ UNCHANGED runVars

SetForeground(name) ==
    /\ pc = "Building"
    /\ fgName' = name
    /\ fgCalls' = IF Len(fgCalls) < 2 THEN Append(fgCalls, name)
                  ELSE <<fgCalls[2], name>>
    /\ UNCHANGED <<nodes, connStr, lastChan, globals, heap, pc, err>>
    /\ UNCHANGED runVars

\* -------------------------------------------------------------- Node.Run
\* reflect.Value.Call(values) on a function of type ft: the panic it raises
\* before the function body starts, or NoErr.
CallCheck(ft, values) ==
    LET n == IF IsVariadic(ft) THEN NumIn(ft) - 1 ELSE NumIn(ft)
    IN  IF Len(values) < n THEN ErrTooFew
        ELSE IF \E i \in 1..Len(values) : ~IsValid(values[i]) THEN ErrZeroValue
        ELSE IF \E i \in 1..n : values[i].type # ft.in[i] THEN ErrCallType
        ELSE IF IsVariadic(ft)
                /\ \E i \in (n + 1)..Len(values) :
                        values[i].type # Elem(ft.in[NumIn(ft)])
        THEN ErrCallType
        ELSE NoErr

\* Where the body of a node function starts; Merge returns at once.
BodyStart(fn) ==
    IF fn = "Source" THEN "send" ELSE IF fn = "Sink" THEN "recv" ELSE "done"

\* An execution of node.Run() that has been created and has not started yet.
\* mode is "go" (go node.Run()) or "fg" (fgNode.Run()).
NewProc(name, mode) ==
    [node |-> name, mode |-> mode, pc |-> "ready", values |-> << >>,
     n |-> 0, got |-> << >>]

\* Node.Run up to the start of the function body: [err, proc].
NodeRun(node, proc) ==
    LET values == [i \in 1..Len(node.args) |-> node.args[i].val]
        e == CallCheck(node.ft, values)
    IN  [err |-> e,
         proc |-> IF e = NoErr
                  THEN [proc EXCEPT !.pc = BodyStart(node.fi), !.values = values]
                  ELSE [proc EXCEPT !.pc = "panicked"]]

\* --------------------------------------------------------------- Graph.Run
Alive == pc \in {"Launching", "Foreground", "Returned"}

\* The caller enters g.Run().
Run ==
    /\ pc = "Building"
    /\ pc' = "Launching"
    /\ pending' = DOMAIN nodes
    /\ procs' = [n \in DOMAIN nodes |-> << >>]
    /\ UNCHANGED <<fgNode, err, fgCalls>>
    /\ UNCHANGED graphVars

\* The loop body with "go node.Run()" outside the test of the name.
RunLoopBodyAlwaysGo(name) ==
    /\ procs' = [procs EXCEPT ![name] = Append(@, NewProc(name, "go"))]
    /\ IF nodes[name].name # fgName THEN UNCHANGED fgNode ELSE fgNode' = {name}

\* One iteration of "for _, node := range g.nodes", in any order.
RunLoopBody(name) ==
    IF nodes[name].name # fgName
    THEN /\ procs' = [procs EXCEPT ![name] = Append(@, NewProc(name, "go"))]
         /\ UNCHANGED fgNode
    ELSE /\ fgNode' = {name}
         /\ UNCHANGED procs

RunLoop(name) ==
    /\ pc = "Launching"
    /\ name \in pending
    /\ pending' = pending \ {name}
    /\ RunLoopBody(name)
    /\ UNCHANGED <<pc, err, fgCalls>>
    /\ UNCHANGED graphVars

\* After the loop with "go fgNode.Run()": the node is started and g.Run()
\* returns.
RunAfterLoopNoWait ==
    IF fgNode = {}
    THEN /\ pc' = "Returned"
         /\ UNCHANGED <<procs, err>>
    ELSE LET name == CHOOSE n \in fgNode : TRUE
             r == NodeRun(nodes[name], NewProc(name, "fg"))
         IN  /\ procs' = [procs EXCEPT ![name] = Append(@, r.proc)]
             /\ IF r.err = NoErr
                THEN pc' = "Returned" /\ UNCHANGED err
                ELSE Panic(r.err)

\* After the loop: "if fgNode != nil { fgNode.Run() }", up to the start of
\* the foreground function's body, or the return of g.Run().
RunAfterLoop ==
    IF fgNode = {}
    THEN /\ pc' = "Returned"
         /\ UNCHANGED <<procs, err>>
    ELSE LET name == CHOOSE n \in fgNode : TRUE
             r == NodeRun(nodes[name], NewProc(name, "fg"))
         IN  /\ procs' = [procs EXCEPT ![name] = Append(@, r.proc)]
             /\ IF r.err = NoErr
                THEN pc' = "Foreground" /\ UNCHANGED err
                ELSE Panic(r.err)

RunForeground ==
    /\ pc = "Launching"
    /\ pending = {}
    /\ RunAfterLoop
    /\ UNCHANGED <<pending, fgNode, fgCalls>>
    /\ UNCHANGED graphVars

\* g.Run() returning without waiting for fgNode.Run().
RunReturnEarly ==
    /\ pc = "Foreground"
    /\ pc' = "Returned"
    /\ UNCHANGED <<err, fgCalls>>
    /\ UNCHANGED graphVars
    /\ UNCHANGED runVars

\* fgNode.Run() has returned, and g.Run() returns.
RunReturn ==
    /\ pc = "Foreground"
    /\ \E n \in DOMAIN procs : \E k \in 1..Len(procs[n]) :
            procs[n][k].mode = "fg" /\ procs[n][k].pc = "done"
    /\ pc' = "Returned"
    /\ UNCHANGED <<err, fgCalls>>
    /\ UNCHANGED graphVars
    /\ UNCHANGED runVars

\* The executions there are: <<node name, index>>.
ProcIds == UNION { { <<n, k>> : k \in 1..Len(procs[n]) } : n \in DOMAIN procs }
IsProc(id) == id[1] \in DOMAIN procs /\ id[2] \in 1..Len(procs[id[1]])
Proc(id) == procs[id[1]][id[2]]

\* A goroutine made by "go node.Run()" is scheduled: Node.Run up to the start
\* of the function body.  A panic in a goroutine stops the process.
GoStart(id) ==
    /\ Alive
    /\ IsProc(id)
    /\ Proc(id).pc = "ready"
    /\ LET r == NodeRun(nodes[Proc(id).node], Proc(id))
       IN  /\ procs' = [procs EXCEPT ![id[1]][id[2]] = r.proc]
           /\ IF r.err = NoErr THEN UNCHANGED <<pc, err>> ELSE Panic(r.err)
    /\ UNCHANGED <<pending, fgNode, fgCalls>>
    /\ UNCHANGED graphVars

\* ----------------------------------------------- node functions, channels
\* func Source(gl, Out): for v := 1..NumVals { Out <- v }
\* func Sink(gl, In):    for i := 1..NumVals { got = append(got, <-In) }
\* The channel of the function's second parameter.
PortChan(p) == p.values[2].ref
AfterStep(p) == IF p.n + 1 = NumVals THEN "done" ELSE p.pc
Sent(p, v) == [p EXCEPT !.n = p.n + 1, !.pc = AfterStep(p)]
Received(p, v) == [p EXCEPT !.n = p.n + 1, !.got = Append(p.got, v),
                            !.pc = AfterStep(p)]

\* The channel operations: [heap, procs] after each.
ChanSend(hp, ps, id) ==
    LET p == ps[id[1]][id[2]]
        c == PortChan(p)
        v == p.n + 1
    IN  [heap |-> [hp EXCEPT ![c].buf = Append(hp[c].buf, v)],
         procs |-> [ps EXCEPT ![id[1]][id[2]] = Sent(p, v)]]

ChanRecv(hp, ps, id) ==
    LET p == ps[id[1]][id[2]]
        c == PortChan(p)
    IN  [heap |-> [hp EXCEPT ![c].buf = Tail(hp[c].buf)],
         procs |-> [ps EXCEPT ![id[1]][id[2]] = Received(p, Head(hp[c].buf))]]

ChanHandoff(hp, ps, id, jd) ==
    LET p == ps[id[1]][id[2]]
        q == ps[jd[1]][jd[2]]
        v == p.n + 1
    IN  [heap |-> hp,
         procs |-> [ps EXCEPT ![id[1]][id[2]] = Sent(p, v),
                              ![jd[1]][jd[2]] = Received(q, v)]]

\* "Out <- v" with room in the buffer.
Send(id) ==
    /\ Alive
    /\ IsProc(id)
    /\ Proc(id).pc = "send"
    /\ Len(heap[PortChan(Proc(id))].buf) < heap[PortChan(Proc(id))].cap
    /\ LET r == ChanSend(heap, procs, id)
       IN  heap' = r.heap /\ procs' = r.procs
    /\ UNCHANGED <<nodes, connStr, lastChan, globals, fgName>>
    /\ UNCHANGED <<pc, err, fgCalls, pending, fgNode>>

\* "<-In" with a value in the buffer.
Recv(id) ==
    /\ Alive
    /\ IsProc(id)
    /\ Proc(id).pc = "recv"
    /\ Len(heap[PortChan(Proc(id))].buf) > 0
    /\ LET r == ChanRecv(heap, procs, id)
       IN  heap' = r.heap /\ procs' = r.procs
    /\ UNCHANGED <<nodes, connStr, lastChan, globals, fgName>>
    /\ UNCHANGED <<pc, err, fgCalls, pending, fgNode>>

\* "Out <- v" meets a receiver waiting in "<-In" on the same channel, whose
\* buffer is then empty: the value passes from one to the other.
Handoff(id, jd) ==
    /\ Alive
    /\ IsProc(id) /\ IsProc(jd)
    /\ Proc(id).pc = "send" /\ Proc(jd).pc = "recv"
    /\ PortChan(Proc(id)) = PortChan(Proc(jd))
    /\ heap[PortChan(Proc(id))].buf = << >>
    /\ LET r == ChanHandoff(heap, procs, id, jd)
       IN  procs' = r.procs
    /\ UNCHANGED <<pc, err, fgCalls, pending, fgNode>>
    /\ UNCHANGED graphVars

\* -------------------------------------------------------------------- Next
Build ==
    \/ \E r \in Registrations : AddNode(r.fn, r.name, r.argNames)
    \/ \E size \in Sizes, nodeChans \in EndpointLists : Connect(size, nodeChans)
    \/ \E name \in FgNames : SetForeground(name)

Launch ==
    \/ Run
    \/ \E name \in Names : RunLoop(name)
    \/ RunForeground
    \/ RunReturn

Execute ==
    \/ \E id \in ProcIds : GoStart(id)
    \/ \E id \in ProcIds : Send(id)
    \/ \E id \in ProcIds : Recv(id)
    \/ \E id \in ProcIds, jd \in ProcIds : Handoff(id, jd)

Next == Build \/ Launch \/ Execute

Spec == Init /\ [][Next]_vars

\* The fair specification: the caller's thread goes on inside g.Run(), and
\* the Go scheduler runs a goroutine that can take a step.
RunStep == (\E name \in Names : RunLoop(name)) \/ RunForeground \/ RunReturn
FairSpec == Spec /\ WF_vars(RunStep) /\ WF_vars(Execute)

\* ------------------------------------------- registrations of every shape
\* A second set of calls, for what NewNode makes of a registration: the
\* variadic Merge with two ports, one port and no port for its variadic
\* parameter and with no port at all, a Sink with no port name, with one
\* name too many and with a port named "globals", and a Source and a Sink
\* that can be joined.
In2 == Str("In2")
RegRegistrations ==
    { [fn |-> "Merge", name |-> Str("A"), argNames |-> <<Out, In, In2>>],
      [fn |-> "Merge", name |-> Str("B"), argNames |-> <<Out, In>>],
      [fn |-> "Merge", name |-> Str("B"), argNames |-> <<Out>>],
      [fn |-> "Merge", name |-> Str("B"), argNames |-> << >>],
      [fn |-> "Sink", name |-> Str("B"), argNames |-> << >>],
      [fn |-> "Sink", name |-> Str("A"), argNames |-> <<In, In2>>],
      [fn |-> "Sink", name |-> Str("A"), argNames |-> <<Str("globals")>>],
      [fn |-> "Source", name |-> Str("A"), argNames |-> <<Out>>],
      [fn |-> "Sink", name |-> Str("B"), argNames |-> <<In>>] }
RegEndpointLists ==
    { <<<<"A", Colon, "Out">>, <<"B", Colon, "In">>>>,
      <<<<"A", Colon, "Out">>, <<"A", Colon, "In">>, <<"A", Colon, "In2">>>>,
      <<<<"A", Colon, "In">>, <<"A", Colon, "In2">>>>,
      <<<<"B", Colon, "Out">>, <<"B", Colon, "In">>>>,
      <<<<"B", Colon, "Out">>>>,
      <<<<"A", Colon, "globals">>>> }
RegFgNames == {Str("B")}

RegBuild ==
    \/ \E r \in RegRegistrations : AddNode(r.fn, r.name, r.argNames)
    \/ \E size \in Sizes, nodeChans \in RegEndpointLists : Connect(size, nodeChans)
    \/ \E name \in RegFgNames : SetForeground(name)

RegNext == RegBuild \/ Launch \/ Execute

RegSpec == Init /\ [][RegNext]_vars

\* ------------------------------------------------------- reading the state
Registered == DOMAIN nodes
HasPrefix(s, tok) == Len(s) >= 1 /\ s[1] = tok
IsNodeAdded(e) == HasPrefix(e, "Node already added: ")
IsArgSet(e) == HasPrefix(e, "Argument alread set: ")
\* The ports of the graph ns: <<node name, index>>.
Ports(ns) == UNION { { <<n, i>> : i \in 1..Len(ns[n].args) } : n \in DOMAIN ns }
PortVal(ns, pt) == ns[pt[1]].args[pt[2]].val
\* The port an endpoint string names in ns, << >> when it names none.
Resolve(ns, s) ==
    LET sp == splitNamePort(s)
    IN  IF ~sp.ok \/ sp.name \notin DOMAIN ns THEN << >>
        ELSE LET i == ArgIndex(ns[sp.name].args, sp.port, 1)
             IN  IF i = 0 THEN << >> ELSE <<sp.name, i>>
\* Whether a port holds channel number ref.
HoldsChan(ns, pt, ref) ==
    /\ IsValid(PortVal(ns, pt)) /\ IsChan(PortVal(ns, pt).type)
    /\ PortVal(ns, pt).ref = ref
\* The calls of Connect the caller can make in this state.
CanConnect == pc = "Building" /\ Len(heap) < MaxChans

\* ------------------------------------------------------------------ claims

\* C1: AddNode with a name that is already registered always panics with
\* "Node already added: <name>", and the step that raises this panic leaves
\* the registered nodes, every port binding, the connection records, the
\* channel counter and the foreground designation as they were.
C1_AddNodeSignals ==
    pc = "Building" =>
        \A r \in Registrations :
            r.name \in Registered =>
                LET res == AddNodeResult(nodes, globals, r.fn, r.name, r.argNames)
                IN  res.err = ErrNodeAdded(r.name) /\ res.nodes = nodes
C1_AddNodeFrame ==
    (err = NoErr /\ IsNodeAdded(err')) =>
        /\ pc' = "Panicked"
        /\ nodes' = nodes /\ connStr' = connStr /\ lastChan' = lastChan
        /\ fgName' = fgName /\ heap' = heap /\ globals' = globals
C1_DuplicateAddNode == [](C1_AddNodeSignals) /\ [][C1_AddNodeFrame]_vars
\* A duplicate AddNode has panicked in a graph that holds a connection and
\* a foreground designation.
C1_Witness ==
    /\ pc = "Panicked" /\ IsNodeAdded(err)
    /\ connStr # << >> /\ fgName # EmptyStr
    /\ \E pt \in Ports(nodes) : HoldsChan(nodes, pt, 1)

\* C2: a Connect call that succeeds makes exactly one new channel, of the
\* requested capacity and empty; every endpoint it lists names a port that
\* holds this channel afterwards; no port held it before the call; the
\* channels made by earlier calls are as they were, and a port the call does
\* not list keeps its value.
C2_ConnectOk(size, nodeChans) ==
    LET r == ConnectResult(nodes, connStr, lastChan, heap, size, nodeChans)
        ref == Len(heap) + 1
        listed == { Resolve(nodes, nodeChans[i]) : i \in 1..Len(nodeChans) }
    IN  r.err = NoErr =>
            /\ Len(r.heap) = Len(heap) + 1
            /\ SubSeq(r.heap, 1, Len(heap)) = heap
            /\ r.heap[ref] = [cap |-> size, buf |-> << >>]
            /\ DOMAIN r.nodes = DOMAIN nodes
            /\ Ports(r.nodes) = Ports(nodes)
            /\ << >> \notin listed
            /\ \A pt \in listed : HoldsChan(r.nodes, pt, ref)
            /\ \A pt \in Ports(nodes) : ~HoldsChan(nodes, pt, ref)
            /\ \A pt \in Ports(nodes) \ listed : PortVal(r.nodes, pt) = PortVal(nodes, pt)
C2_ConnectSharesOneNewChannel ==
    CanConnect =>
        \A size \in Sizes, nodeChans \in EndpointLists : C2_ConnectOk(size, nodeChans)
\* A Connect of two endpoints has succeeded after another Connect: the two
\* ports hold channel 2, of capacity 1, and the port the first call bound
\* holds channel 1, of capacity 0.
C2_Witness ==
    /\ pc = "Building" /\ Len(heap) = 2 /\ heap[2].cap = 1 /\ heap[1].cap = 0
    /\ Registered = Names
    /\ Cardinality({ pt \in Ports(nodes) : HoldsChan(nodes, pt, 2) }) = 2
    /\ Cardinality({ pt \in Ports(nodes) : HoldsChan(nodes, pt, 1) }) = 1

\* C3: a port binds at most once.  A port that holds a value keeps it in
\* every step; SetArg on a port that holds a value panics with "Argument
\* alread set: <port>" and changes nothing; and a Connect call whose
\* endpoints all name ports of the graph, the first of them a channel port,
\* panics with that message when one of the ports is bound already or is
\* listed twice.
C3_KeepsValue ==
    \A pt \in Ports(nodes) :
        IsValid(PortVal(nodes, pt)) =>
            /\ pt \in Ports(nodes')
            /\ PortVal(nodes', pt) = PortVal(nodes, pt)
C3_SetArgSignals ==
    \A pt \in Ports(nodes) :
        IsValid(PortVal(nodes, pt)) =>
            LET name == nodes[pt[1]].args[pt[2]].name
                s == SetArg(nodes, pt[1], name, ChanValue(ChanInt, Len(heap) + 1))
            IN  s.err = ErrArgSet(name) /\ s.nodes = nodes
C3_Rebinds(nodeChans) ==
    LET pts == [i \in 1..Len(nodeChans) |-> Resolve(nodes, nodeChans[i])]
    IN  /\ Len(nodeChans) >= 1
        /\ \A i \in 1..Len(pts) : pts[i] # << >>
        /\ IsChan(nodes[pts[1][1]].args[pts[1][2]].Type)
        /\ \/ \E i \in 1..Len(pts) : IsValid(PortVal(nodes, pts[i]))
           \/ \E i, j \in 1..Len(pts) : i < j /\ pts[i] = pts[j]
C3_ConnectSignals ==
    CanConnect =>
        \A size \in Sizes, nodeChans \in EndpointLists :
            C3_Rebinds(nodeChans) =>
                IsArgSet(ConnectResult(nodes, connStr, lastChan, heap, size,
                                       nodeChans).err)
C3_PortBindsOnce ==
    [](C3_SetArgSignals /\ C3_ConnectSignals) /\ [][C3_KeepsValue]_vars
\* The second of two Connect calls that share an endpoint has panicked: two
\* channels were made, and the shared port holds the first.
C3_Witness ==
    /\ pc = "Panicked" /\ IsArgSet(err) /\ Len(heap) = 2
    /\ \E pt \in Ports(nodes) : HoldsChan(nodes, pt, 1)
    /\ \A pt \in Ports(nodes) : ~HoldsChan(nodes, pt, 2)

\* ---------------------------------------------------------- Run, claims
Designated == fgCalls # << >>
LastFg == fgCalls[Len(fgCalls)]
Mode(n) == procs[n][1].mode
Expected == [i \in 1..NumVals |-> i]

\* C4: with a registered node designated by the last SetForeground call,
\* the node is executed by the caller only (never as a goroutine); when it
\* starts, the loop of Run is over and every other node has its goroutine;
\* Run is inside fgNode.Run() until the node function has returned, and has
\* returned only if it has.
C4_ForegroundSynchronous ==
    (Designated /\ LastFg \in Registered /\ LastFg \in DOMAIN procs) =>
        LET ex == procs[LastFg]
        IN  /\ \A k \in 1..Len(ex) : ex[k].mode = "fg"
            /\ Len(ex) > 0 =>
                   /\ pending = {}
                   /\ \A n \in Registered \ {LastFg} :
                          Len(procs[n]) = 1 /\ Mode(n) = "go"
            /\ pc = "Foreground" => Len(ex) = 1 /\ ex[1].pc \in {"send", "recv", "done"}
            /\ pc = "Returned" => Len(ex) = 1 /\ ex[1].pc = "done"
\* Run has returned after the foreground Sink read every value of a Source.
C4_Witness ==
    /\ pc = "Returned" /\ Designated /\ LastFg \in Registered
    /\ nodes[LastFg].fi = "Sink"
    /\ procs[LastFg][1].mode = "fg" /\ procs[LastFg][1].got = Expected

\* C5: with no SetForeground call made, Run never waits for a node: the
\* caller is never inside fgNode.Run().
C5_NoForegroundNeverWaits == ~Designated => pc # "Foreground"

\* C6: a SetForeground call with a name that is not registered panics and
\* leaves the designation as it was.
C6_UnknownForeground ==
    (fgCalls' # fgCalls /\ fgCalls'[Len(fgCalls')] \notin Registered) =>
        pc' = "Panicked" /\ fgName' = fgName
C6_SetForegroundUnknownFails == [][C6_UnknownForeground]_vars

\* C7: after SetForeground calls, the designation is the name of the last
\* call; a node is executed by the caller exactly if it is the node of that
\* name, at most one execution is the caller's, and once the loop of Run is
\* over the node of that name has its one execution and the node named by
\* the call before, if it is another registered node, runs as a goroutine.
C7_LastSetForegroundWins ==
    Designated =>
        /\ fgName = LastFg
        /\ \A id \in ProcIds : (Proc(id).mode = "fg") <=> (id[1] = LastFg)
        /\ Cardinality({ id \in ProcIds : Proc(id).mode = "fg" }) <= 1
        /\ (pc \in {"Foreground", "Returned"} /\ LastFg \in Registered) =>
               Len(procs[LastFg]) = 1
        /\ (/\ pc \in {"Foreground", "Returned"}
            /\ Len(fgCalls) = 2 /\ fgCalls[1] # LastFg
            /\ fgCalls[1] \in Registered) =>
               Len(procs[fgCalls[1]]) = 1 /\ Mode(fgCalls[1]) = "go"
\* Two calls named two registered nodes; Run has returned, the second ran
\* in the foreground and the first as a goroutine.
C7_Witness ==
    /\ pc = "Returned" /\ Len(fgCalls) = 2 /\ fgCalls[1] # fgCalls[2]
    /\ {fgCalls[1], fgCalls[2]} \subseteq Registered
    /\ Mode(fgCalls[2]) = "fg" /\ Mode(fgCalls[1]) = "go"
    /\ procs[fgCalls[1]][1].pc # "ready"

\* C8: Run executes no node twice; a node its loop has visited has its one
\* goroutine unless it is the foreground node; and once the loop is over
\* every registered node has exactly one execution, the caller's for the
\* foreground node and a goroutine for every other node.
C8_EveryNodeOnce ==
    /\ \A n \in DOMAIN procs : Len(procs[n]) <= 1
    /\ pc = "Launching" =>
           \A n \in Registered \ pending :
               IF n = fgName THEN procs[n] = << >>
               ELSE Len(procs[n]) = 1 /\ Mode(n) = "go"
    /\ pc \in {"Foreground", "Returned"} =>
           \A n \in Registered :
               /\ Len(procs[n]) = 1
               /\ Mode(n) = IF n = fgName THEN "fg" ELSE "go"
\* Run has returned in a graph of three nodes, one of them the foreground
\* node, and every node function has started.
C8_Witness ==
    /\ pc = "Returned" /\ Registered = Names /\ fgName \in Registered
    /\ \A n \in Registered : Len(procs[n]) = 1 /\ procs[n][1].pc \in {"send", "recv", "done"}

\* ------------------------------------------------------- channels, claims
\* The record Connect leaves of an endpoint: the port is the node's slot 1.
EdgeOf(n) == EdgeRecord(n, nodes[n].args[2].name, ChanName(0))
IsSource(n) == n \in Registered /\ nodes[n].fi = "Source" /\ Len(nodes[n].args) = 2
IsSink(n) == n \in Registered /\ nodes[n].fi = "Sink" /\ Len(nodes[n].args) = 2
\* The graph is a Source s and a Sink k, and one Connect call has been made,
\* with the two ports as its endpoints.
IsPipe(s, k) ==
    /\ Registered = {s, k} /\ IsSource(s) /\ IsSink(k)
    /\ Len(connStr) = 3
    /\ \E size \in Sizes : connStr[1] = ChanRecord(ChanName(0), size)
    /\ {connStr[2], connStr[3]} = {EdgeOf(s), EdgeOf(k)}
\* The graph is a Source s and two Sinks, and one Connect call has been made,
\* with the three ports as its endpoints.
IsFan(s, k1, k2) ==
    /\ Registered = {s, k1, k2} /\ k1 # k2 /\ IsSource(s) /\ IsSink(k1) /\ IsSink(k2)
    /\ Len(connStr) = 4
    /\ \E size \in Sizes : connStr[1] = ChanRecord(ChanName(0), size)
    /\ {connStr[2], connStr[3], connStr[4]} = {EdgeOf(s), EdgeOf(k1), EdgeOf(k2)}
\* What a node has sent and received so far.
SentBy(n) == IF n \in DOMAIN procs /\ Len(procs[n]) >= 1 THEN procs[n][1].n ELSE 0
GotBy(n) == IF n \in DOMAIN procs /\ Len(procs[n]) >= 1 THEN procs[n][1].got ELSE << >>
Range(q) == { q[i] : i \in 1..Len(q) }

\* C9: in a graph of one Source and one Sink joined by one Connect call of
\* any offered capacity, the two ports hold the one channel of the call, of
\* the capacity asked for; what the Sink has received is at every moment the
\* first values the Source has sent, in their order, the values in between
\* are in the channel, and no more than its capacity; and once Run is
\* entered, in a graph made with a globals value the node functions can be
\* called with, the Sink eventually has received every value, in order.
C9_PipeInOrder ==
    \A s \in Names, k \in Names :
        IsPipe(s, k) =>
            /\ HoldsChan(nodes, <<s, 2>>, 1) /\ HoldsChan(nodes, <<k, 2>>, 1)
            /\ connStr[1] = ChanRecord(ChanName(0), heap[1].cap)
            /\ GotBy(k) \o heap[1].buf = [i \in 1..SentBy(s) |-> i]
            /\ Len(heap[1].buf) <= heap[1].cap
C9_PipeLaunched ==
    /\ pc = "Launching" /\ IsValid(globals)
    /\ \E s \in Names, k \in Names : IsPipe(s, k)
C9_PipeDelivered == \E s \in Names, k \in Names : IsPipe(s, k) /\ GotBy(k) = Expected
C10_FanNoDuplicate ==
    \A s \in Names, k1 \in Names, k2 \in Names :
        IsFan(s, k1, k2) =>
            LET all == GotBy(k1) \o GotBy(k2) \o heap[1].buf
            IN  /\ \A n \in {s, k1, k2} : HoldsChan(nodes, <<n, 2>>, 1)
                /\ Len(all) = SentBy(s) /\ Range(all) = 1..SentBy(s)
C10_FanLaunched ==
    /\ pc = "Launching" /\ IsValid(globals)
    /\ \E s \in Names, k1 \in Names, k2 \in Names : IsFan(s, k1, k2)
C10_FanDelivered ==
    \E s \in Names, k1 \in Names, k2 \in Names :
        /\ IsFan(s, k1, k2)
        /\ Len(GotBy(k1)) + Len(GotBy(k2)) = NumVals
        /\ Range(GotBy(k1)) \cup Range(GotBy(k2)) = 1..NumVals
C10_FanOut == [](C10_FanNoDuplicate) /\ (C10_FanLaunched ~> C10_FanDelivered)
\* The values are split: each Sink has received one, and the Sink that is
\* node B the later one.
C10_Witness ==
    \E s \in Names, k \in Names :
        /\ IsFan(s, Str("B"), k)
        /\ Len(GotBy(k)) = 1 /\ Len(GotBy(Str("B"))) = 1
        /\ GotBy(k)[1] < GotBy(Str("B"))[1]

\* ------------------------------------------------------ wiring faults, claims
\* C11: a wiring call that panics (only AddNode and Connect can) leaves the
\* port bindings, the connection records and the channel counter as they
\* were before the call.
C11_FailedCallFrame ==
    (pc = "Building" /\ pc' = "Panicked") =>
        nodes' = nodes /\ connStr' = connStr /\ lastChan' = lastChan
C11_FailedConnectNoMutation == [][C11_FailedCallFrame]_vars

\* The panics a wiring fault raises: a duplicate node name, a node or a port
\* that is not there, a port bound already, port names that do not fit the
\* function's parameters.
IsWiringFault(e) ==
    \/ IsNodeAdded(e) \/ IsArgSet(e)
    \/ e \in {ErrArgNotFound, ErrNilDeref, ErrFuncIndex, ErrTooFew}
\* The panics of the Go runtime, which name no node and no port.
IsRuntimeError(e) == e \in {ErrNilDeref, ErrIndex}

\* C12: the panic of a wiring fault is raised by the wiring call, while the
\* graph is being built, and not once Run has been entered.
C12_FaultStep ==
    (pc # "Panicked" /\ pc' = "Panicked" /\ IsWiringFault(err')) => pc = "Building"
C12_FaultsSurfaceAtTheCall == [][C12_FaultStep]_vars

\* Whether the port names of a registration do not fit the function: for a
\* variadic function fewer names than fixed parameters after globals, for
\* any other a number of names that is not the number of those parameters.
ArityMismatch(r) ==
    LET ft == FuncType(r.fn)
    IN  IF IsVariadic(ft) THEN 1 + Len(r.argNames) < NumIn(ft) - 1
        ELSE 1 + Len(r.argNames) # NumIn(ft)

\* C13: AddNode with port names that do not fit the function panics and
\* registers nothing.
C13_ArityMismatchSignalled ==
    pc = "Building" =>
        \A r \in RegRegistrations :
            (r.name \notin Registered /\ ArityMismatch(r)) =>
                LET res == AddNodeResult(nodes, globals, r.fn, r.name, r.argNames)
                IN  res.err # NoErr /\ res.nodes = nodes

\* C14: a Connect call whose endpoints are all of the form "Node:Port" and
\* one of which names a node that is not registered panics, and with a
\* message of the package, not an error of the Go runtime.
C14_UnknownNode(nodeChans) ==
    /\ \A i \in 1..Len(nodeChans) : splitNamePort(nodeChans[i]).ok
    /\ \E i \in 1..Len(nodeChans) : splitNamePort(nodeChans[i]).name \notin Registered
C14_UnknownNodeSignalled ==
    CanConnect =>
        \A size \in Sizes, nodeChans \in EndpointLists :
            C14_UnknownNode(nodeChans) =>
                LET r == ConnectResult(nodes, connStr, lastChan, heap, size, nodeChans)
                IN  r.err # NoErr /\ ~IsRuntimeError(r.err)

\* C15: the ports of a registered node have pairwise distinct names.
C15_PortNamesDistinct ==
    \A n \in Registered :
        \A i, j \in 1..Len(nodes[n].args) :
            i # j => nodes[n].args[i].name # nodes[n].args[j].name

\* C16: registering a variadic function under a free name with at least
\* the names of its fixed parameters succeeds; the node has slot 0 named
\* "globals" and one port per name, in order; a port at or beyond the
\* position of the variadic parameter has that parameter's element type, a
\* channel type, and a port before it the type of the parameter at its
\* position; and the ports of a registered node keep these types.
C16_Typed(ft, args) ==
    \A i \in 1..Len(args) :
        args[i].Type = IF i >= NumIn(ft) THEN Elem(ft.in[NumIn(ft)]) ELSE ft.in[i]
C16_Registers(r) ==
    LET res == AddNodeResult(nodes, globals, r.fn, r.name, r.argNames)
        ft == FuncType(r.fn)
    IN  /\ res.err = NoErr
        /\ DOMAIN res.nodes = Registered \cup {r.name}
        /\ LET args == res.nodes[r.name].args
           IN  /\ Len(args) = 1 + Len(r.argNames)
               /\ args[1].name = Str("globals") /\ args[1].Type = GlobalsT
               /\ \A i \in 1..Len(r.argNames) : args[i + 1].name = r.argNames[i]
               /\ C16_Typed(ft, args)
               /\ \A i \in 1..Len(args) : i >= NumIn(ft) => args[i].Type = ChanInt
C16_VariadicPortTypes ==
    /\ pc = "Building" =>
           \A r \in RegRegistrations :
               (/\ IsVariadic(FuncType(r.fn)) /\ ~ArityMismatch(r)
                /\ r.name \notin Registered) => C16_Registers(r)
    /\ \A n \in Registered :
           IsVariadic(nodes[n].ft) => C16_Typed(nodes[n].ft, nodes[n].args)
\* Merge is registered with two ports for its variadic parameter, the three
\* ports hold one channel, and its call in Run has been made and returned.
C16_Witness ==
    /\ Str("A") \in Registered /\ nodes[Str("A")].fi = "Merge"
    /\ Len(nodes[Str("A")].args) = 4
    /\ \A i \in 2..4 : HoldsChan(nodes, <<Str("A"), i>>, 1)
    /\ Str("A") \in DOMAIN procs /\ Len(procs[Str("A")]) = 1
    /\ procs[Str("A")][1].pc = "done"

\* C17: slot 0 of every registered node is named "globals" and holds the
\* value NewGraph was given.
C17_Slot0HoldsGlobals ==
    \A n \in Registered :
        nodes[n].args[1].name = Str("globals") /\ nodes[n].args[1].val = globals

\* ----------------------------------------------------- suspension, claims
\* A step of the execution id.
StepOf(id) ==
    \/ GoStart(id) \/ Send(id) \/ Recv(id)
    \/ \E jd \in ProcIds : Handoff(id, jd) \/ Handoff(jd, id)
\* The executions that wait in a receive, or in a send, on channel c.
Receivers(c) == { id \in ProcIds : Proc(id).pc = "recv" /\ PortChan(Proc(id)) = c }
Senders(c) == { id \in ProcIds : Proc(id).pc = "send" /\ PortChan(Proc(id)) = c }
\* id is in a send on a channel whose buffer is full, and which holds an
\* item or has no receiver waiting.
WaitsToSend(id) ==
    /\ Proc(id).pc = "send"
    /\ LET c == PortChan(Proc(id))
       IN  /\ Len(heap[c].buf) >= heap[c].cap
           /\ heap[c].buf # << >> \/ Receivers(c) = {}
\* id is in a receive on a channel that is empty and has no sender waiting.
WaitsToRecv(id) ==
    /\ Proc(id).pc = "recv"
    /\ LET c == PortChan(Proc(id))
       IN  heap[c].buf = << >> /\ Senders(c) = {}

\* C18: every channel has the capacity its Connect call asked for, as the
\* call recorded it, and never holds more items than that; and while the
\* process runs, an execution that has not finished can take no step exactly
\* when it is in a send on a full channel or in a receive on an empty one.
C18_Bounded ==
    \A c \in 1..Len(heap) :
        /\ Len(heap[c].buf) <= heap[c].cap
        /\ \E i \in 1..Len(connStr) :
               connStr[i] = ChanRecord(ChanName(c - 1), heap[c].cap)
C18_OnlySuspendsOnChannel ==
    Alive =>
        \A id \in ProcIds :
            Proc(id).pc # "done" =>
                ((ENABLED StepOf(id)) <=> ~(WaitsToSend(id) \/ WaitsToRecv(id)))
C18_BoundedBlocking == C18_Bounded /\ C18_OnlySuspendsOnChannel
\* The Source has filled a channel of capacity 1 and waits to send its next
\* value, and a Sink waits on another, empty channel.
C18_Witness ==
    /\ Alive
    /\ \E id \in ProcIds :
           /\ WaitsToSend(id)
           /\ heap[PortChan(Proc(id))].cap = 1
           /\ Len(heap[PortChan(Proc(id))].buf) = 1
    /\ \E jd \in ProcIds : WaitsToRecv(jd)

\* Whether node n holds channel c in one of its ports.
OnChan(n, c) == \E i \in 1..Len(nodes[n].args) : HoldsChan(nodes, <<n, i>>, c)
\* Every node function that writes to (reads from) channel c has returned.
NoWriter(c) ==
    \A n \in Registered :
        (nodes[n].fi = "Source" /\ OnChan(n, c)) =>
            n \in DOMAIN procs /\ Len(procs[n]) = 1 /\ procs[n][1].pc = "done"
NoReader(c) ==
    \A n \in Registered :
        (nodes[n].fi = "Sink" /\ OnChan(n, c)) =>
            n \in DOMAIN procs /\ Len(procs[n]) = 1 /\ procs[n][1].pc = "done"
\* id waits on a channel that no node will write to, or read from, any more.
Stuck(id) ==
    /\ IsProc(id)
    /\ \/ Proc(id).pc = "recv" /\ heap[PortChan(Proc(id))].buf = << >>
          /\ NoWriter(PortChan(Proc(id)))
       \/ Proc(id).pc = "send" /\ NoReader(PortChan(Proc(id)))
          /\ Len(heap[PortChan(Proc(id))].buf) >= heap[PortChan(Proc(id))].cap

\* C19: an execution that waits on a channel no node will write to (read
\* from) any more is left as it is by every step, and still waits; Run has
\* not returned, and so never returns, when it is the foreground node's; and
\* no step removes an execution, starts one again or gives a node a second.
C19_FgNeverReturns ==
    \A id \in ProcIds : (Stuck(id) /\ Proc(id).mode = "fg") => pc # "Returned"
C19_Step ==
    /\ \A id \in ProcIds :
           Stuck(id) => (procs'[id[1]][id[2]] = Proc(id) /\ Stuck(id)')
    /\ \A id \in ProcIds :
           /\ id[1] \in DOMAIN procs' /\ id[2] <= Len(procs'[id[1]])
           /\ Len(procs'[id[1]]) <= 1
           /\ Proc(id).pc # "ready" => procs'[id[1]][id[2]].pc # "ready"
C19_NoSupervision == [](C19_FgNeverReturns) /\ [][C19_Step]_vars
\* The Source has returned after its values went one to each of two Sinks;
\* both Sinks wait for a second value, one of them in the foreground, and
\* Run has not returned.
C19_Witness ==
    /\ pc = "Foreground"
    /\ \E id \in ProcIds, jd \in ProcIds :
           /\ Stuck(id) /\ Proc(id).mode = "fg" /\ Len(Proc(id).got) = 1
           /\ Stuck(jd) /\ Proc(jd).mode = "go" /\ Len(Proc(jd).got) = 1

=============================================================================
